---- MODULE Spec2Model ----
(***************************************************************************)
(* State-machine model of script.js: the testimonial slider (carousel),    *)
(* the IntersectionObserver-driven section reveal / lazy image load, and   *)
(* the page glue: booking modal, tabs, booking form and analytics events.  *)
(* Every handler of the script is one atomic action: the browser runs one  *)
(* callback to completion before it dispatches the next.                   *)
(***************************************************************************)
EXTENDS Integers, Sequences, FiniteSets, TLC

\* ------------------------------------------------------------------ bounds
MaxSlides == 4     \* the page carries 1..MaxSlides elements of class "slide"
MaxNet == 4        \* |next calls - previous calls| explored
MaxStray == 1      \* dot elements in the container that createDots did not make
NumSections == 2   \* elements of class "section"
NumImages == 2     \* img elements carrying data-src
MaxBatch == 2      \* entries one observer callback invocation can carry
MaxClicks == 2     \* book_lesson_click events explored
MaxSubmits == 2    \* submissions of the booking form explored
NumTabs == 3       \* elements of class "operations__tab" (and content panels)

VARIABLES
  pc,            \* "loading" before the script has run, "ready" after it
  maxSlide,      \* slides.length (line 273)
  curSlide,      \* the slider's current index, a JS number (line 272)
  transform,     \* slide position -> percent of its translateX (line 299)
  dots,          \* the .dots__dot elements of the document, in document order
  threw,         \* the handler that ran last ended in an uncaught TypeError
  net,           \* history: nextSlide calls minus prevSlide calls so far
  runStart,      \* history: curSlide before the current run of nextSlide calls
  runLen,        \* history: length of the current run of nextSlide calls
  secObserved,   \* section -> it is an observation target of sectionObserver
  secHidden,     \* section -> it carries class "section--hidden"
  secReveals,    \* history: section -> times revealSection removed its class
  imgObserved,   \* image -> it is an observation target of imgObserver
  imgSrc,        \* image -> "placeholder" (markup src) or "deferred" (data-src)
  imgLazy,       \* image -> it carries class "lazy-img"
  imgListeners,  \* image -> number of load listeners loadImg attached
  imgLoad,       \* image -> state of the fetch of its current src
  lastOut,       \* history: the observer whose callback ran last, and the targets
                 \* its batch reported only as not intersecting
  modalHidden,   \* .modal carries class "hidden"
  overlayHidden, \* .overlay carries class "hidden"
  hasGtag,       \* typeof window.gtag === 'function'
  gaClicks,      \* history: gtag('event', 'book_lesson_click') calls so far
  gaLeads,       \* history: gtag('event', 'generate_lead', ...) calls so far
  formFilled,    \* the booking form's controls hold what the user typed
  subs,          \* history: one record per submit event of the booking form
  tabActive,     \* the tabs carrying class "operations__tab--active"
  panelActive,   \* the panels carrying class "operations__content--active"
  tabThrew       \* the tab handler that ran last ended in an uncaught TypeError

sliderVars == <<maxSlide, curSlide, transform, dots, threw, net, runStart, runLen>>
secVars == <<secObserved, secHidden, secReveals>>
imgVars == <<imgObserved, imgSrc, imgLazy, imgListeners, imgLoad>>
modalVars == <<modalHidden, overlayHidden>>
gaVars == <<hasGtag, gaClicks, gaLeads>>
formVars == <<formFilled, subs>>
tabVars == <<tabActive, panelActive, tabThrew>>
uiVars == <<modalVars, gaVars, formVars, tabVars>>
vars == <<pc, sliderVars, secVars, imgVars, lastOut, uiVars>>

\* ------------------------------------------------------------ JS numbers
\* A JS number that is an integer, or NaN.  NaN is never === to anything and
\* absorbs arithmetic.
Num(n) == [nan |-> FALSE, n |-> n]
NaN == [nan |-> TRUE, n |-> 0]
StrictEq(a, b) == ~a.nan /\ ~b.nan /\ a.n = b.n
Plus(a, k) == IF a.nan THEN NaN ELSE Num(a.n + k)

\* The value of a data-slide attribute: the decimal text of an integer n, the
\* empty text, a text that is no number, or no attribute at all.
IntAttr(n) == [kind |-> "int", n |-> n]
EmptyAttr == [kind |-> "empty", n |-> 0]
TextAttr == [kind |-> "text", n |-> 0]
NoAttr == [kind |-> "none", n |-> 0]

\* Number(e.target.dataset.slide): "" converts to 0, a non-numeric text and
\* undefined (attribute missing) convert to NaN.
Number(a) ==
  CASE a.kind = "int" -> Num(a.n)
    [] a.kind = "empty" -> Num(0)
    [] OTHER -> NaN

\* The attribute selector [data-slide="${slide}"] compares the attribute's text
\* with the number's text: only the decimal text of the same integer matches
\* (the text of NaN is "NaN", which no attribute value of the model spells).
SelectorMatches(a, slide) == a.kind = "int" /\ ~slide.nan /\ a.n = slide.n

Slides == 0 .. (maxSlide - 1)
InRange(x) == ~x.nan /\ x.n \in Slides

Min(S) == CHOOSE x \in S : \A y \in S : x <= y

\* ------------------------------------------------------------------- modal
\* openModal, after e.preventDefault(): modal and overlay lose class "hidden".
openModal ==
  /\ modalHidden' = FALSE
  /\ overlayHidden' = FALSE

\* Mutant of closeModal: the overlay keeps its state.
closeModalKeepsOverlay ==
  /\ modalHidden' = TRUE
  /\ overlayHidden' = overlayHidden

\* closeModal: both gain class "hidden" (classList.add on a carried class is
\* a no-op).
closeModal ==
  /\ modalHidden' = TRUE
  /\ overlayHidden' = TRUE

\* The modal's keydown listener: Escape closes the modal if it is not hidden.
ModalKeydown(key) ==
  IF key = "Escape" /\ ~modalHidden
    THEN closeModal
    ELSE UNCHANGED <<modalHidden, overlayHidden>>

\* ------------------------------------------------------------------ slider
\* Mutant of createDots: data-slide counts from one.
createDotsOneBased(ds) ==
  ds \o [k \in 1 .. maxSlide |-> [slide |-> IntAttr(k), active |-> FALSE]]

\* createDots: one button per slide, appended in slide order, data-slide = i.
createDots(ds) ==
  ds \o [k \in 1 .. maxSlide |-> [slide |-> IntAttr(k - 1), active |-> FALSE]]

\* activateDot: every dot loses the active class; the first dot in document
\* order whose data-slide matches gains it.  querySelector returning null makes
\* `.classList` throw after the classes were removed.
activateDot(ds, slide) ==
  LET cleared == [k \in DOMAIN ds |-> [ds[k] EXCEPT !.active = FALSE]]
      hits == {k \in DOMAIN ds : SelectorMatches(ds[k].slide, slide)}
  IN IF hits = {}
       THEN [dots |-> cleared, threw |-> TRUE]
       ELSE [dots |-> [cleared EXCEPT ![Min(hits)].active = TRUE], threw |-> FALSE]

\* Mutant of goToSlide: the sign of the distance is flipped.
goToSlideMirrored(tr, slide) ==
  IF slide.nan THEN tr ELSE [i \in DOMAIN tr |-> 100 * (slide.n - i)]

\* goToSlide: slide i gets translateX(100 * (i - slide) %).  With slide = NaN
\* the text is "translateX(NaN%)", which the style declaration rejects, so the
\* previous transform stays.
goToSlide(tr, slide) ==
  IF slide.nan THEN tr ELSE [i \in DOMAIN tr |-> 100 * (i - slide.n)]

\* The common tail of nextSlide, prevSlide and the dot handler.
MoveTo(slide) ==
  LET a == activateDot(dots, slide)
  IN /\ curSlide' = slide
     /\ transform' = goToSlide(transform, slide)
     /\ dots' = a.dots
     /\ threw' = a.threw

\* Mutant of nextSlide: wraps one step late (compares with maxSlide).
nextSlideLateWrap ==
  /\ MoveTo(IF StrictEq(curSlide, Num(maxSlide)) THEN Num(0) ELSE Plus(curSlide, 1))
  /\ net' = net + 1
  /\ IF runLen < maxSlide
       THEN runLen' = runLen + 1 /\ runStart' = runStart
       ELSE runLen' = 1 /\ runStart' = curSlide

nextSlide ==
  /\ MoveTo(IF StrictEq(curSlide, Num(maxSlide - 1)) THEN Num(0) ELSE Plus(curSlide, 1))
  /\ net' = net + 1
  /\ IF runLen < maxSlide
       THEN runLen' = runLen + 1 /\ runStart' = runStart
       ELSE runLen' = 1 /\ runStart' = curSlide

\* Mutant of prevSlide: no wrap to the last slide at index 0.
prevSlideNoWrap ==
  /\ MoveTo(Plus(curSlide, -1))
  /\ net' = net - 1
  /\ runLen' = 0
  /\ runStart' = curSlide'

prevSlide ==
  /\ MoveTo(IF StrictEq(curSlide, Num(0)) THEN Num(maxSlide - 1) ELSE Plus(curSlide, -1))
  /\ net' = net - 1
  /\ runLen' = 0
  /\ runStart' = curSlide'

\* init: goToSlide(0); createDots(); activateDot(0).
SliderInit ==
  /\ maxSlide' = maxSlide
  /\ curSlide' = Num(0)
  /\ transform' = goToSlide(transform, Num(0))
  /\ dots' = activateDot(createDots(dots), Num(0)).dots
  /\ threw' = activateDot(createDots(dots), Num(0)).threw
  /\ net' = 0
  /\ runLen' = 0
  /\ runStart' = Num(0)

\* Mutant of BtnRightClick: the click also shows every section.
BtnRightClickReveals ==
  /\ pc = "ready"
  /\ net < MaxNet
  /\ nextSlide
  /\ secHidden' = [s \in DOMAIN secHidden |-> FALSE]
  /\ UNCHANGED <<uiVars, pc, maxSlide, secObserved, secReveals, imgVars, lastOut>>

\* The slider's listeners exist once the script has run; the guards on net only
\* bound the exploration.
BtnRightClick ==
  /\ pc = "ready"
  /\ net < MaxNet
  /\ nextSlide
  /\ UNCHANGED <<uiVars, pc, maxSlide, secVars, imgVars, lastOut>>

BtnLeftClick ==
  /\ pc = "ready"
  /\ net > -MaxNet
  /\ prevSlide
  /\ UNCHANGED <<uiVars, pc, maxSlide, secVars, imgVars, lastOut>>

Keys == {"ArrowLeft", "ArrowRight", "Escape", "Enter"}

\* Mutant of SliderKeydown: Escape is taken for ArrowLeft.
SliderKeydownOnEscape(key) ==
  CASE key \in {"ArrowLeft", "Escape"} -> net > -MaxNet /\ prevSlide
    [] key = "ArrowRight" -> net < MaxNet /\ nextSlide
    [] OTHER -> threw' = FALSE /\ UNCHANGED <<curSlide, transform, dots, net, runStart, runLen>>

\* The slider's keydown listener: two independent ifs on e.key.
SliderKeydown(key) ==
  CASE key = "ArrowLeft" -> net > -MaxNet /\ prevSlide
    [] key = "ArrowRight" -> net < MaxNet /\ nextSlide
    [] OTHER -> threw' = FALSE /\ UNCHANGED <<curSlide, transform, dots, net, runStart, runLen>>

\* A keydown event on the document: the modal's listener (registered first)
\* and the slider's listener both run on it.
DocKeydown(key) ==
  /\ pc = "ready"
  /\ ModalKeydown(key)
  /\ SliderKeydown(key)
  /\ UNCHANGED <<pc, maxSlide, secVars, imgVars, lastOut, gaVars, formVars, tabVars>>

\* Mutant of DotContainerClick: the index is the dot's position in the
\* container counted from one instead of its data-slide.
DotContainerClickByPosition(target) ==
  /\ pc = "ready"
  /\ IF target = 0
       THEN threw' = FALSE /\ UNCHANGED <<curSlide, transform, dots, runStart, runLen>>
       ELSE /\ MoveTo(Num(target))
            /\ runLen' = 0
            /\ runStart' = curSlide'
  /\ UNCHANGED <<uiVars, pc, maxSlide, net, secVars, imgVars, lastOut>>

\* The click listener of the dot container.  target = 0 is a click on an
\* element without class dots__dot (the container itself); target = k is a
\* click on the k-th dot of the document.  The index is taken from the dot's
\* data-slide as it is: there is no check of its range or of NaN.
DotContainerClick(target) ==
  /\ pc = "ready"
  /\ IF target = 0
       THEN threw' = FALSE /\ UNCHANGED <<curSlide, transform, dots, runStart, runLen>>
       ELSE /\ MoveTo(Number(dots[target].slide))
            /\ runLen' = 0
            /\ runStart' = curSlide'
  /\ UNCHANGED <<uiVars, pc, maxSlide, net, secVars, imgVars, lastOut>>

\* Environment: markup or another script puts one more element of class
\* dots__dot into the container (after the created ones), whose data-slide is
\* not the index of a slide.
StrayAttrs == {IntAttr(-1), IntAttr(maxSlide), EmptyAttr, TextAttr, NoAttr}

StrayDot(a) ==
  /\ pc = "ready"
  /\ Len(dots) < maxSlide + MaxStray
  /\ dots' = Append(dots, [slide |-> a, active |-> FALSE])
  /\ UNCHANGED <<uiVars, pc, maxSlide, curSlide, transform, threw, net, runStart, runLen, secVars, imgVars, lastOut>>

\* ------------------------------------------------------- section reveal
Sections == 1 .. NumSections
Images == 1 .. NumImages

Entry(t, b) == [target |-> t, isIntersecting |-> b]

\* What one callback invocation can be handed: the observer's queued entries,
\* one or more, each for one of its observation targets, in any order (the
\* queue is emptied by the invocation, and targets are unobserved only inside
\* a callback, so no entry outlives its target's observation).
Entries(targets) == {Entry(t, b) : t \in targets, b \in BOOLEAN}
Batches(targets) == UNION {[1 .. n -> Entries(targets)] : n \in 1 .. MaxBatch}

\* The targets a batch reports as not intersecting.
NotIntersecting(entries) ==
  {entries[k].target : k \in {j \in DOMAIN entries : ~entries[j].isIntersecting}}

\* The targets a batch reports as intersecting.
Intersecting(entries) ==
  {entries[k].target : k \in {j \in DOMAIN entries : entries[j].isIntersecting}}

\* The targets a batch reports as not intersecting and nowhere as intersecting.
OnlyNotIntersecting(entries) == NotIntersecting(entries) \ Intersecting(entries)

\* Mutant of revealSection: the revealed section stays observed.
revealSectionKeepsObserving(entries) ==
  LET entry == Head(entries)
  IN IF ~entry.isIntersecting
       THEN UNCHANGED <<secHidden, secObserved, secReveals>>
       ELSE /\ secHidden' = [secHidden EXCEPT ![entry.target] = FALSE]
            /\ secReveals' = [secReveals EXCEPT ![entry.target] = @ + 1]
            /\ secObserved' = secObserved

\* Mutant of revealSection: the isIntersecting guard is missing.
revealSectionUnguarded(entries) ==
  LET entry == Head(entries)
  IN /\ secHidden' = [secHidden EXCEPT ![entry.target] = FALSE]
     /\ secReveals' = [secReveals EXCEPT ![entry.target] = @ + 1]
     /\ secObserved' = [secObserved EXCEPT ![entry.target] = FALSE]

\* revealSection(entries, observer): `const [entry] = entries` reads the first
\* entry of the batch only; the other entries of the invocation are dropped.
revealSection(entries) ==
  LET entry == Head(entries)
  IN IF ~entry.isIntersecting
       THEN UNCHANGED <<secHidden, secObserved, secReveals>>
       ELSE /\ secHidden' = [secHidden EXCEPT ![entry.target] = FALSE]
            /\ secReveals' = [secReveals EXCEPT ![entry.target] = @ + 1]
            /\ secObserved' = [secObserved EXCEPT ![entry.target] = FALSE]

\* Mutant of ArmSections: every section is observed, the last one is not hidden.
ArmSectionsSkipsLast ==
  /\ secObserved' = [s \in Sections |-> TRUE]
  /\ secHidden' = [s \in Sections |-> s # NumSections]
  /\ secReveals' = secReveals

\* allSections.forEach: observe the section, then hide it; one synchronous loop.
ArmSections ==
  /\ secObserved' = [s \in Sections |-> TRUE]
  /\ secHidden' = [s \in Sections |-> TRUE]
  /\ secReveals' = secReveals

\* sectionObserver invokes its callback with a batch of entries.
SecDeliver(entries) ==
  /\ pc = "ready"
  /\ revealSection(entries)
  /\ lastOut' = [obs |-> "section", out |-> OnlyNotIntersecting(entries)]
  /\ UNCHANGED <<uiVars, pc, sliderVars, imgVars>>

\* ------------------------------------------------------- lazy images
\* Mutant of loadImg: lazy-img is removed at once, not in a load listener.
loadImgUnblursAtOnce(entries) ==
  LET entry == Head(entries)
  IN IF ~entry.isIntersecting
       THEN UNCHANGED <<imgSrc, imgLoad, imgListeners, imgObserved, imgLazy>>
       ELSE /\ imgSrc' = [imgSrc EXCEPT ![entry.target] = "deferred"]
            /\ imgLoad' = [imgLoad EXCEPT ![entry.target] = "loading"]
            /\ imgListeners' = imgListeners
            /\ imgObserved' = [imgObserved EXCEPT ![entry.target] = FALSE]
            /\ imgLazy' = [imgLazy EXCEPT ![entry.target] = FALSE]

\* loadImg(entries, observer): first entry only; copies data-src into src
\* (which starts a new fetch), attaches a load listener, unobserves.
loadImg(entries) ==
  LET entry == Head(entries)
  IN IF ~entry.isIntersecting
       THEN UNCHANGED <<imgSrc, imgLoad, imgListeners, imgObserved, imgLazy>>
       ELSE /\ imgSrc' = [imgSrc EXCEPT ![entry.target] = "deferred"]
            /\ imgLoad' = [imgLoad EXCEPT ![entry.target] = "loading"]
            /\ imgListeners' = [imgListeners EXCEPT ![entry.target] = @ + 1]
            /\ imgObserved' = [imgObserved EXCEPT ![entry.target] = FALSE]
            /\ imgLazy' = imgLazy

\* imgTargets.forEach(img => imgObserver.observe(img))
ArmImages ==
  /\ imgObserved' = [i \in Images |-> TRUE]
  /\ UNCHANGED <<imgSrc, imgLazy, imgListeners, imgLoad>>

\* imgObserver invokes its callback with a batch of entries.
ImgDeliver(entries) ==
  /\ pc = "ready"
  /\ loadImg(entries)
  /\ lastOut' = [obs |-> "image", out |-> OnlyNotIntersecting(entries)]
  /\ UNCHANGED <<uiVars, pc, sliderVars, secVars>>

\* The listener loadImg attached to the image: removes class lazy-img.
onImgLoad(i) == [imgLazy EXCEPT ![i] = FALSE]

\* The image's own load event: the fetch of the current src completed; the
\* attached listeners run.
ImgLoadEvent(i) ==
  /\ imgLoad[i] = "loading"
  /\ imgLoad' = [imgLoad EXCEPT ![i] = "complete"]
  /\ imgLazy' = IF imgListeners[i] > 0 THEN onImgLoad(i) ELSE imgLazy
  /\ UNCHANGED <<uiVars, pc, sliderVars, secVars, imgObserved, imgSrc, imgListeners, lastOut>>

\* The fetch of the current src fails: no load event is ever fired for it.
ImgLoadFails(i) ==
  /\ imgLoad[i] = "loading"
  /\ imgLoad' = [imgLoad EXCEPT ![i] = "failed"]
  /\ UNCHANGED <<uiVars, pc, sliderVars, secVars, imgObserved, imgSrc, imgLazy, imgListeners, lastOut>>

\* ------------------------------------------------------- the script
\* ------------------------------------------------- analytics, modal clicks
\* Environment: the analytics snippet defines window.gtag (it may never do so,
\* e.g. when it is blocked).
GtagLoads ==
  /\ ~hasGtag
  /\ hasGtag' = TRUE
  /\ UNCHANGED <<pc, sliderVars, secVars, imgVars, lastOut, modalVars, gaClicks, gaLeads,
                 formVars, tabVars>>

\* Mutant of TrackClick: gtag is called without the typeof guard.
TrackClickUnguarded == gaClicks' = gaClicks + 1

\* The second click listener of every .btn--show-modal (lines 423-430).
TrackClick ==
  gaClicks' = IF hasGtag THEN gaClicks + 1 ELSE gaClicks

\* A click on a .btn--show-modal: openModal (registered at line 65) runs, then
\* the analytics listener.  The guard on gaClicks only bounds the exploration.
ShowModalClick ==
  /\ pc = "ready"
  /\ gaClicks < MaxClicks
  /\ openModal
  /\ TrackClick
  /\ UNCHANGED <<pc, sliderVars, secVars, imgVars, lastOut, hasGtag, gaLeads, formVars, tabVars>>

\* A click on .btn--close-modal (line 68).
CloseModalClick ==
  /\ pc = "ready"
  /\ closeModal
  /\ UNCHANGED <<pc, sliderVars, secVars, imgVars, lastOut, gaVars, formVars, tabVars>>

\* A click on .overlay (line 69).
OverlayClick ==
  /\ pc = "ready"
  /\ closeModal
  /\ UNCHANGED <<pc, sliderVars, secVars, imgVars, lastOut, gaVars, formVars, tabVars>>

\* ------------------------------------------------------------ booking form
\* The texts of the three alert() calls of the submit handler (the first one
\* without its last sentence).
Thanks == "Thanks! Your booking request has been sent."
Sorry == "Sorry, something went wrong. Please try again."
NetworkError == "Network error. Please try again."

\* Environment: the user types into the form's controls.
FillForm ==
  /\ ~formFilled
  /\ formFilled' = TRUE
  /\ UNCHANGED <<pc, sliderVars, secVars, imgVars, lastOut, modalVars, gaVars, subs, tabVars>>

\* The submit handler up to its await: preventDefault, the FormData snapshot
\* and one fetch(FORMSPREE_URL, {method: 'POST', ...}).  The handler returns
\* to the event loop with the request in flight; nothing stops a further
\* submit event meanwhile.  The guard only bounds the exploration.
SubmitForm ==
  /\ pc = "ready"
  /\ Len(subs) < MaxSubmits
  /\ subs' = Append(subs, [posts |-> 1, outcome |-> "pending", alerts |-> <<>>])
  /\ UNCHANGED <<pc, sliderVars, secVars, imgVars, lastOut, modalVars, gaVars, formFilled, tabVars>>

Pending == {id \in DOMAIN subs : subs[id].outcome = "pending"}

\* The request of submission id is over with the given outcome and the
\* handler's continuation shows msg.
Settle(id, outcome, msg) ==
  subs' = [subs EXCEPT ![id] = [@ EXCEPT !.outcome = outcome, !.alerts = Append(@, msg)]]

\* if (res.ok): generate_lead when gtag is a function, bookingForm.reset(),
\* closeModal(), alert(thanks).  res is the outcome the transport reported.
onSuccess(id, res) ==
  /\ gaLeads' = IF hasGtag THEN gaLeads + 1 ELSE gaLeads
  /\ formFilled' = FALSE
  /\ closeModal
  /\ Settle(id, res, Thanks)

\* Mutant of onFailure: the form is reset on a non-success response as well.
onFailureResets(id, res) ==
  /\ formFilled' = FALSE
  /\ Settle(id, res, Sorry)
  /\ UNCHANGED <<gaLeads, modalVars>>

\* else: alert(sorry) and nothing more.
onFailure(id, res) ==
  /\ Settle(id, res, Sorry)
  /\ UNCHANGED <<gaLeads, formFilled, modalVars>>

\* Mutant of onNetworkError: the catch block shows the generic message.
onNetworkErrorGeneric(id, res) ==
  /\ Settle(id, res, Sorry)
  /\ UNCHANGED <<gaLeads, formFilled, modalVars>>

\* catch (err): alert(network error) and nothing more.
onNetworkError(id, res) ==
  /\ Settle(id, res, NetworkError)
  /\ UNCHANGED <<gaLeads, formFilled, modalVars>>

\* The fetch promise of submission id fulfils with a response; ok is res.ok.
FetchResolves(id, ok) ==
  /\ id \in Pending
  /\ IF ok THEN onSuccess(id, "success") ELSE onFailure(id, "failure")
  /\ UNCHANGED <<pc, sliderVars, secVars, imgVars, lastOut, hasGtag, gaClicks, tabVars>>

\* The fetch promise of submission id rejects (the transport failed); the
\* await throws into the catch block.
FetchRejects(id) ==
  /\ id \in Pending
  /\ onNetworkError(id, "transport")
  /\ UNCHANGED <<pc, sliderVars, secVars, imgVars, lastOut, hasGtag, gaClicks, tabVars>>

\* -------------------------------------------------------------------- tabs
Tabs == 1 .. NumTabs

\* Mutant of TabHandler: the clicked tab is marked without clearing the others.
TabHandlerKeepsOthers(t, k) ==
  IF t = 0
    THEN tabThrew' = FALSE /\ UNCHANGED <<tabActive, panelActive>>
    ELSE /\ tabActive' = tabActive \cup {t}
         /\ panelActive' = IF k \in Tabs THEN {k} ELSE {}
         /\ tabThrew' = (k \notin Tabs)

\* The click listener of the tab container.  t = 0: the click is not inside
\* an .operations__tab (closest returns null, the handler returns); otherwise
\* t is the clicked tab and k its data-tab, k = 0 standing for a value that no
\* .operations__content--k panel carries: querySelector then returns null and
\* `.classList` throws after every marker was removed and the tab was marked.
TabHandler(t, k) ==
  IF t = 0
    THEN tabThrew' = FALSE /\ UNCHANGED <<tabActive, panelActive>>
    ELSE /\ tabActive' = {t}
         /\ panelActive' = IF k \in Tabs THEN {k} ELSE {}
         /\ tabThrew' = (k \notin Tabs)

TabContainerClick(t, k) ==
  /\ pc = "ready"
  /\ TabHandler(t, k)
  /\ UNCHANGED <<pc, sliderVars, secVars, imgVars, lastOut, modalVars, gaVars, formVars>>

\* The page before the script runs: maxSlide slides without inline transform,
\* an empty dot container, sections shown, images blurred and fetching their
\* placeholder src, nothing observed; modal and overlay hidden, the form
\* empty, the first tab and the first panel active, window.gtag not defined.
Init ==
  /\ pc = "loading"
  /\ maxSlide \in 1 .. MaxSlides
  /\ curSlide = Num(0)
  /\ transform = [i \in 0 .. (maxSlide - 1) |-> 0]
  /\ dots = <<>>
  /\ threw = FALSE
  /\ net = 0
  /\ runStart = Num(0)
  /\ runLen = 0
  /\ secObserved = [s \in Sections |-> FALSE]
  /\ secHidden = [s \in Sections |-> FALSE]
  /\ secReveals = [s \in Sections |-> 0]
  /\ imgObserved = [i \in Images |-> FALSE]
  /\ imgSrc = [i \in Images |-> "placeholder"]
  /\ imgLazy = [i \in Images |-> TRUE]
  /\ imgListeners = [i \in Images |-> 0]
  /\ imgLoad = [i \in Images |-> "loading"]
  /\ lastOut = [obs |-> "none", out |-> {}]
  /\ modalHidden = TRUE
  /\ overlayHidden = TRUE
  /\ hasGtag = FALSE
  /\ gaClicks = 0
  /\ gaLeads = 0
  /\ formFilled = FALSE
  /\ subs = <<>>
  /\ tabActive = {1}
  /\ panelActive = {1}
  /\ tabThrew = FALSE

\* The script's top level, one synchronous task: arm the section observer, arm
\* the image observer, run slider().
RunScript ==
  /\ pc = "loading"
  /\ pc' = "ready"
  /\ ArmSections
  /\ ArmImages
  /\ SliderInit
  /\ lastOut' = lastOut
  /\ UNCHANGED uiVars

NextNav ==
  \/ RunScript
  \/ BtnRightClick
  \/ BtnLeftClick
  \/ \E key \in Keys : DocKeydown(key)

NextCarousel ==
  \/ NextNav
  \/ \E target \in 0 .. Len(dots) : DotContainerClick(target)
  \/ \E a \in StrayAttrs : StrayDot(a)

Observed(obs) == {t \in DOMAIN obs : obs[t]}

NextObserver ==
  \/ RunScript
  \/ \E entries \in Batches(Observed(secObserved)) : SecDeliver(entries)
  \/ \E entries \in Batches(Observed(imgObserved)) : ImgDeliver(entries)
  \/ \E i \in Images : ImgLoadEvent(i)
  \/ \E i \in Images : ImgLoadFails(i)

\* The click handlers of the page glue: show-modal buttons, close button,
\* overlay and tab container.
NextClicks ==
  \/ RunScript
  \/ GtagLoads
  \/ ShowModalClick
  \/ CloseModalClick
  \/ OverlayClick
  \/ \E t \in 0 .. NumTabs : \E k \in 0 .. NumTabs : TabContainerClick(t, k)

\* The modal with the booking form: everything that opens or closes the modal.
NextModal ==
  \/ RunScript
  \/ GtagLoads
  \/ ShowModalClick
  \/ CloseModalClick
  \/ OverlayClick
  \/ \E key \in {"Escape", "Enter"} : DocKeydown(key)
  \/ FillForm
  \/ SubmitForm
  \/ \E id \in DOMAIN subs : \E ok \in BOOLEAN : FetchResolves(id, ok)
  \/ \E id \in DOMAIN subs : FetchRejects(id)

\* Every key of the model, with the slider's buttons and the modal's open and
\* close buttons.
NextKeys ==
  \/ NextNav
  \/ ShowModalClick
  \/ CloseModalClick

\* The slider and the observers on one page: next, previous and dot clicks
\* interleaved with observer callbacks (of one entry each) and load events.
\* The buttons are explored one step either side of the start only.
NextBoth ==
  \/ RunScript
  \/ BtnRightClick /\ net < 1
  \/ BtnLeftClick /\ net > -1
  \/ \E target \in 1 .. Len(dots) : DotContainerClick(target)
  \/ \E t \in Observed(secObserved) : \E b \in BOOLEAN : SecDeliver(<<Entry(t, b)>>)
  \/ \E t \in Observed(imgObserved) : \E b \in BOOLEAN : ImgDeliver(<<Entry(t, b)>>)
  \/ \E i \in Images : ImgLoadEvent(i)

\* next / previous only (buttons and arrow keys)
SpecNav == Init /\ [][NextNav]_vars
\* the slider with dot clicks
SpecCarousel == Init /\ [][NextCarousel]_vars
\* the two observers and the images' load events; the observers never read the
\* slider, so the page is taken with a single slide here
InitObserver == Init /\ maxSlide = 1
SpecObserver == InitObserver /\ [][NextObserver]_vars
\* the page glue does not read the slider either
InitGlue == Init /\ maxSlide = 1
SpecClicks == InitGlue /\ [][NextClicks]_vars
SpecModal == InitGlue /\ [][NextModal]_vars
SpecKeys == Init /\ [][NextKeys]_vars
\* slider and observers together, on a page of two slides
InitBoth == Init /\ maxSlide = 2
SpecBoth == InitBoth /\ [][NextBoth]_vars

\* ================================================================ claims
\* Slide i is the one shown: every slide p sits at 100 * (p - i) percent, slide
\* i alone at 0, and the dot created for i is the only dot with the active class.
ShownAt(i) ==
  /\ \A p \in Slides : transform[p] = 100 * (p - i)
  /\ {p \in Slides : transform[p] = 0} = {i}
  /\ {k \in DOMAIN dots : dots[k].active} = {i + 1}
  /\ dots[i + 1].slide = IntAttr(i)

\* C1: after any sequence of next/previous calls (buttons or arrow keys) from
\* the initialised slider, curSlide is an index in [0, N-1] and equals (number
\* of next calls - number of previous calls) modulo N.
C1_IndexIsNetDisplacement ==
  pc = "ready" => InRange(curSlide) /\ curSlide.n = net % maxSlide

\* C1 witness: three slides, two more previous than next calls: wrapped
\* backwards to index 1.
C1_Witness ==
  pc = "ready" /\ maxSlide = 3 /\ net = -2 /\ curSlide = Num(1)

\* C2 (as claimed): a click on a dot whose data-slide is out of range,
\* non-numeric or missing leaves curSlide, the offsets and the dots as they
\* were and does not throw.
C2_MalformedDotIgnored ==
  [][\A t \in 1 .. Len(dots) :
       (DotContainerClick(t) /\ ~(dots[t].slide.kind = "int" /\ dots[t].slide.n \in Slides))
         => (UNCHANGED <<curSlide, transform, dots>> /\ ~threw')]_vars

\* C3 (as claimed): in every state after initialisation the slide and the dot
\* at curSlide are the one slide at offset 0 and the one active dot, and every
\* other slide sits at 100% times its distance from curSlide.
C3_OneShownOneActive ==
  pc = "ready" => InRange(curSlide) /\ ShownAt(curSlide.n)

\* C6: N calls of next() in a row from any index s end at s; at the last index
\* next() goes to 0 and at index 0 previous() goes to the last index.
C6_NextNTimesReturns ==
  /\ [](pc = "ready" /\ runLen = maxSlide => curSlide = runStart)
  /\ [][/\ BtnRightClick /\ curSlide = Num(maxSlide - 1) => curSlide' = Num(0)
        /\ BtnLeftClick /\ curSlide = Num(0) => curSlide' = Num(maxSlide - 1)]_vars

\* C6 witness: three slides, a run of three next() calls that started at index
\* 2 (wrapping on its first call) is complete.
C6_Witness ==
  pc = "ready" /\ maxSlide = 3 /\ runLen = 3 /\ runStart = Num(2) /\ curSlide = Num(2)

\* C7: a step of next, previous or a dot click that moves to an index i in
\* [0, N-1] leaves slide p at 100 * (p - i) percent, slide i alone at offset 0
\* and dot i the only active dot.
C7_GoToLayout ==
  [][(\/ BtnRightClick
      \/ BtnLeftClick
      \/ \E key \in {"ArrowLeft", "ArrowRight"} : DocKeydown(key)
      \/ \E t \in 1 .. Len(dots) : DotContainerClick(t))
     /\ InRange(curSlide')
       => ShownAt(curSlide.n)']_vars

\* C7 witness: four slides, moved to index 2: offsets -200, -100, 0, 100 and
\* the third dot active.
C7_Witness ==
  /\ pc = "ready" /\ maxSlide = 4 /\ curSlide = Num(2)
  /\ transform = (0 :> -200) @@ (1 :> -100) @@ (2 :> 0) @@ (3 :> 100)
  /\ dots[3].active /\ ~dots[1].active

\* C4 (as claimed): every element that a callback invocation reports as
\* intersecting, whatever its place in the batch, is mutated (section shown,
\* image source copied) and unobserved by that invocation.
C4_IntersectingSettles ==
  [][/\ \A entries \in Batches(Observed(secObserved)) :
          SecDeliver(entries)
            => \A s \in Intersecting(entries) : ~secHidden'[s] /\ ~secObserved'[s]
     /\ \A entries \in Batches(Observed(imgObserved)) :
          ImgDeliver(entries)
            => \A i \in Intersecting(entries) : imgSrc'[i] = "deferred" /\ ~imgObserved'[i]]_vars

\* C5: an element is mutated at most once; once it is unobserved (settled) it
\* stays unobserved and its mutation is not applied again, whatever further
\* callbacks run.
C5_SettlesAtMostOnce ==
  /\ [](/\ \A s \in Sections : secReveals[s] <= 1
        /\ \A i \in Images : imgListeners[i] <= 1)
  /\ [][/\ \A s \in Sections :
             pc = "ready" /\ ~secObserved[s]
               => /\ ~secObserved'[s]
                  /\ secReveals'[s] = secReveals[s]
                  /\ secHidden'[s] = secHidden[s]
        /\ \A i \in Images :
             pc = "ready" /\ ~imgObserved[i]
               => /\ ~imgObserved'[i]
                  /\ imgListeners'[i] = imgListeners[i]
                  /\ imgSrc'[i] = imgSrc[i]]_vars

\* C5 witness: every section and every image has settled, one callback after
\* the other, each exactly once.
C5_Witness ==
  /\ pc = "ready"
  /\ \A s \in Sections : secReveals[s] = 1 /\ ~secObserved[s] /\ ~secHidden[s]
  /\ \A i \in Images : imgListeners[i] = 1 /\ ~imgObserved[i] /\ imgSrc[i] = "deferred"

\* C8: the elements that the last callback invocation reported only as not
\* intersecting are as they were before it: hidden / on the placeholder source,
\* observed and not mutated; a section loses its hidden marker, and an image
\* gets its deferred source, only in an invocation whose first entry reports it
\* intersecting.
C8_NotIntersectingIgnored ==
  /\ [](/\ pc = "ready" /\ lastOut.obs = "section"
             => \A s \in lastOut.out :
                  secHidden[s] /\ secObserved[s] /\ secReveals[s] = 0
        /\ pc = "ready" /\ lastOut.obs = "image"
             => \A i \in lastOut.out :
                  /\ imgSrc[i] = "placeholder" /\ imgObserved[i]
                  /\ imgListeners[i] = 0 /\ imgLazy[i])
  /\ [][/\ \A s \in Sections :
             secHidden[s] /\ ~secHidden'[s]
               => \E n \in 1 .. MaxBatch : \E entries \in [1 .. n -> Entries(Observed(secObserved))] :
                    Head(entries) = Entry(s, TRUE) /\ SecDeliver(entries)
        /\ \A i \in Images :
             imgSrc[i] # imgSrc'[i]
               => \E n \in 1 .. MaxBatch : \E entries \in [1 .. n -> Entries(Observed(imgObserved))] :
                    Head(entries) = Entry(i, TRUE) /\ ImgDeliver(entries)]_vars

\* C8 witness: the last sectionObserver callback reported section 1 as not
\* intersecting; section 1 is still hidden, observed and unrevealed, while
\* section 2 has been revealed before.
C8_Witness ==
  /\ pc = "ready"
  /\ lastOut = [obs |-> "section", out |-> {1}]
  /\ secHidden[1] /\ secObserved[1] /\ secReveals[1] = 0
  /\ ~secHidden[2]

\* C9: no callback runs before the script has armed and hidden every section;
\* from then on a section that no callback has revealed is hidden, and a
\* revealed section is never hidden again.
C9_HiddenBeforeAnyCallback ==
  /\ pc = "loading"
       => lastOut.obs = "none" /\ \A s \in Sections : secReveals[s] = 0 /\ ~secObserved[s]
  /\ pc = "ready" => \A s \in Sections : secReveals[s] = 0 => secHidden[s] /\ secObserved[s]
  /\ \A s \in Sections : secReveals[s] > 0 => ~secHidden[s]

\* C9 witness: the script has run, no callback yet: every section is observed
\* and hidden.
C9_Witness ==
  /\ pc = "ready"
  /\ lastOut.obs = "none"
  /\ \A s \in Sections : secObserved[s] /\ secHidden[s]

\* C10: an image without the lazy-img class has its deferred source live and a
\* completed load of it; the class goes away only in a load event delivered
\* after loadImg settled the image, so a pending image and an image whose load
\* has not completed (or failed) keep it.
C10_BlurRemovedOnLoadAfterSettle ==
  /\ [](\A i \in Images :
          /\ ~imgLazy[i]
               => imgSrc[i] = "deferred" /\ imgLoad[i] = "complete" /\ ~imgObserved[i]
          /\ imgSrc[i] = "placeholder" => imgLazy[i]
          /\ imgLoad[i] # "complete" => imgLazy[i])
  /\ [][\A i \in Images :
          imgLazy[i] /\ ~imgLazy'[i]
            => ImgLoadEvent(i) /\ imgSrc[i] = "deferred" /\ imgListeners[i] > 0]_vars

\* C10 witness: image 1 was settled and its load completed (class removed);
\* image 2 was settled and its load failed (class kept).
C10_Witness ==
  /\ ~imgLazy[1] /\ imgSrc[1] = "deferred" /\ imgLoad[1] = "complete"
  /\ imgLazy[2] /\ imgSrc[2] = "deferred" /\ imgLoad[2] = "failed"

\* C11: a click on a dot whose data-slide is an index i in [0, N-1] sets
\* curSlide to i in that one step, whatever the index was before, and leaves
\* slide i at offset 0 and dot i the active dot.
C11_DotClickJumps ==
  [][\A t \in 1 .. Len(dots) :
       (DotContainerClick(t) /\ dots[t].slide.kind = "int" /\ dots[t].slide.n \in Slides)
         => /\ curSlide' = Num(dots[t].slide.n)
            /\ ShownAt(dots[t].slide.n)'
            /\ ~threw']_vars

\* C11 witness: four slides, index 3 reached from index 0 by one dot click
\* (no next or previous call was made, so no index in between was taken).
C11_Witness ==
  /\ pc = "ready" /\ maxSlide = 4 /\ net = 0
  /\ curSlide = Num(3) /\ ShownAt(3)

\* C12: the initialisation of a slider of N >= 1 slides leaves exactly N dots,
\* the k-th of them encoding index k in slide order, curSlide 0, slide p at
\* 100 * p percent and dot 0 the only active dot.
C12_InitLayout ==
  [][RunScript
       => /\ maxSlide' >= 1
          /\ Len(dots') = maxSlide'
          /\ \A k \in DOMAIN dots' : dots'[k].slide = IntAttr(k - 1)
          /\ curSlide' = Num(0)
          /\ \A p \in Slides : transform'[p] = 100 * p
          /\ {k \in DOMAIN dots' : dots'[k].active} = {1}
          /\ ~threw']_vars

\* C12 witness: a slider of three slides right after its initialisation.
C12_Witness ==
  /\ pc = "ready" /\ maxSlide = 3 /\ Len(dots) = 3
  /\ curSlide = Num(0) /\ net = 0 /\ runLen = 0
  /\ transform = [p \in 0 .. 2 |-> 100 * p]
  /\ dots[1].active /\ ~dots[2].active /\ ~dots[3].active

C14_EffectsOnlyOnSuccess ==
  [][/\ \A id \in DOMAIN subs :
          /\ FetchResolves(id, TRUE)
                => /\ ~formFilled' /\ modalHidden' /\ overlayHidden'
                   /\ gaLeads' = gaLeads + (IF hasGtag THEN 1 ELSE 0)
          /\ FetchResolves(id, FALSE) \/ FetchRejects(id)
                => UNCHANGED <<formFilled, modalHidden, overlayHidden, gaLeads, gaClicks>>
     /\ gaLeads' # gaLeads \/ (formFilled /\ ~formFilled')
          => \E id \in DOMAIN subs :
               subs[id].outcome = "pending" /\ subs'[id].outcome = "success"]_vars

\* C14 witness: with gtag defined, the first submission succeeded (one
\* generate_lead); the user typed again and reopened the modal, and the second
\* submission then failed: the form is still filled and the modal still open.
C14_Witness ==
  /\ Len(subs) = 2 /\ hasGtag /\ gaLeads = 1
  /\ subs[1].outcome = "success" /\ subs[2].outcome = "failure"
  /\ formFilled /\ ~modalHidden /\ ~overlayHidden

\* C15: every click on a show-modal button leaves modal and overlay shown and
\* fires exactly one book_lesson_click if gtag is a function and none if it
\* is not.
C15_ShowModalClick ==
  [][ShowModalClick
       => /\ ~modalHidden' /\ ~overlayHidden'
          /\ gaClicks' = gaClicks + (IF hasGtag THEN 1 ELSE 0)]_vars

\* C15 witness: the modal was opened while gtag is not defined; no event.
C15_Witness ==
  pc = "ready" /\ ~modalHidden /\ ~overlayHidden /\ ~hasGtag /\ gaClicks = 0

\* C16: a step of next, previous or a dot click leaves every section's and
\* every image's state (observed, hidden, source, blur, listeners, load) as it
\* was; an observer callback or an image load event leaves the slider's index,
\* offsets and dots as they were.
C16_CarouselAndObserversApart ==
  [][/\ (\/ BtnRightClick /\ net < 1
         \/ BtnLeftClick /\ net > -1
         \/ \E target \in 1 .. Len(dots) : DotContainerClick(target))
          => UNCHANGED <<secVars, imgVars>>
     /\ (\/ \E t \in Observed(secObserved) : \E b \in BOOLEAN : SecDeliver(<<Entry(t, b)>>)
         \/ \E t \in Observed(imgObserved) : \E b \in BOOLEAN : ImgDeliver(<<Entry(t, b)>>)
         \/ \E i \in Images : ImgLoadEvent(i))
          => UNCHANGED <<curSlide, transform, dots, maxSlide>>]_vars

\* C16 witness: the slider stands on its second slide while section 1 is
\* revealed and section 2 still hidden, image 1 is loaded and sharp and
\* image 2 still pending.
C16_Witness ==
  /\ pc = "ready" /\ curSlide = Num(1) /\ ShownAt(1)
  /\ ~secHidden[1] /\ secHidden[2]
  /\ ~imgLazy[1] /\ imgLazy[2] /\ imgObserved[2]

\* C17: ArrowLeft is exactly one previous(), ArrowRight exactly one next(),
\* any other key leaves index, offsets and dots as they were; an arrow key
\* leaves modal and overlay as they were.
C17_KeysAndCarousel ==
  [][\A key \in Keys :
       DocKeydown(key)
         => /\ key = "ArrowLeft"
                 => /\ net' = net - 1
                    /\ curSlide' = Num((curSlide.n + maxSlide - 1) % maxSlide)
                    /\ ShownAt(curSlide.n)'
            /\ key = "ArrowRight"
                 => /\ net' = net + 1
                    /\ curSlide' = Num((curSlide.n + 1) % maxSlide)
                    /\ ShownAt(curSlide.n)'
            /\ key \notin {"ArrowLeft", "ArrowRight"}
                 => UNCHANGED <<curSlide, transform, dots, net>>
            /\ key \in {"ArrowLeft", "ArrowRight"}
                 => UNCHANGED <<modalHidden, overlayHidden>>]_vars

\* C17 witness: three slides, the modal open, one previous() more than next():
\* the carousel is on its last slide and the modal is still open.
C17_Witness ==
  /\ pc = "ready" /\ maxSlide = 3 /\ ~modalHidden /\ ~overlayHidden
  /\ net = -1 /\ curSlide = Num(2)

\* C18: modal and overlay are hidden together or shown together in every
\* state; Escape with the modal hidden changes neither; a close (button,
\* overlay, successful submission) of a hidden modal leaves it hidden.
C18_ModalOverlayTogether ==
  /\ [](modalHidden <=> overlayHidden)
  /\ [][/\ DocKeydown("Escape") /\ modalHidden
             => UNCHANGED <<modalHidden, overlayHidden, formVars, gaVars>>
        /\ (\/ CloseModalClick
            \/ OverlayClick
            \/ \E id \in DOMAIN subs : FetchResolves(id, TRUE)) /\ modalHidden
             => modalHidden' /\ overlayHidden']_vars

\* C18 witness: the modal was opened once (one book_lesson_click), a
\* submission succeeded, and modal and overlay are hidden again.
C18_Witness ==
  /\ pc = "ready" /\ hasGtag /\ gaClicks = 1
  /\ Len(subs) = 1 /\ subs[1].outcome = "success"
  /\ modalHidden /\ overlayHidden

\* C19: a click on tab t whose data-tab k has a panel leaves t the only
\* active tab and panel k the only active panel; a click in the container
\* that is not on a tab leaves both markers as they were.
C19_OneTabOnePanel ==
  [][/\ \A t \in Tabs : \A k \in Tabs :
          TabContainerClick(t, k)
            => tabActive' = {t} /\ panelActive' = {k} /\ ~tabThrew'
     /\ \A k \in 0 .. NumTabs :
          TabContainerClick(0, k) => UNCHANGED <<tabActive, panelActive>>]_vars

\* C19 witness: tab 2, whose data-tab names panel 3, was clicked.
C19_Witness ==
  pc = "ready" /\ tabActive = {2} /\ panelActive = {3} /\ ~tabThrew

====
